---- MODULE Spec2Model ----
(***************************************************************************)
(* smart-helpdesk: the triage pipeline (services/triageService), the       *)
(* keyword classifier and reply drafter (agent/llmProvider), the article   *)
(* search (services/kbSearch), the ticket, agent and config routes that    *)
(* drive them, and the Mongoose models they store into.                    *)
(*                                                                         *)
(* Numbers with two decimals (confidence, threshold) are kept in           *)
(* hundredths: 0.78 is 78.  Article scores are kept in halves: 0.5 is 1.   *)
(* A text is represented by what the code observes of it: the set of the   *)
(* classifier keywords that occur in it as substrings.                     *)
(***************************************************************************)
EXTENDS Integers, Sequences, FiniteSets, TLC

(* ----------------------------- bounds -------------------------------- *)
\* requests received plus store operations that failed, in one behaviour
MaxEvents == 2

(* ------------------------ program constants -------------------------- *)
DefaultThreshold == 78
SearchLimit == 3
HitsForFullConfidence == 3
ZeroHitConfidence == 40

\* a trace id or a reference that was left undefined
Undefined == 0

Min(a, b) == IF a < b THEN a ELSE b

(* ------------------- agent/llmProvider.js: classify ------------------ *)
heuristics ==
  << [cat |-> "billing",  words |-> {"refund", "invoice", "charge", "payment", "card", "billing"}],
     [cat |-> "tech",     words |-> {"error", "bug", "stack", "500", "crash", "login", "auth", "timeout"}],
     [cat |-> "shipping", words |-> {"delivery", "shipment", "tracking", "package", "courier", "delayed"}] >>

\* A text is the set of the words in it.  The keywords that occur as
\* substrings of a lower-case word: the word itself if it is a keyword, and
\* the keyword inside the two longer words used here.
substringsOf(word) ==
  CASE word = "refunded" -> {"refund"}
    [] word = "author"   -> {"auth"}
    [] OTHER             -> {word}

\* t.includes(w)
includes(t, w) == \E x \in t : w \in substringsOf(x)

\* String.prototype.toLowerCase, on the words used here
toLowerCase(words) ==
  { CASE x = "Refunded" -> "refunded"
      [] x = "ERROR"    -> "error"
      [] x = "Login"    -> "login"
      [] OTHER          -> x : x \in words }

\* h.words.reduce((a,w) => a + (t.includes(w) ? 1 : 0), 0)
hits(h, t) == Cardinality({w \in h.words : includes(t, w)})

\* variant of bestFrom: a later category replaces best on an equal hit count
RECURSIVE bestFromLast(_, _, _)
bestFromLast(i, t, best) ==
  IF i > Len(heuristics) THEN best
  ELSE bestFromLast(i + 1, t,
         IF hits(heuristics[i], t) >= best.score /\ hits(heuristics[i], t) > 0
           THEN [cat |-> heuristics[i].cat, score |-> hits(heuristics[i], t)]
           ELSE best)

\* the for loop over heuristics: a later category replaces best only on a
\* strictly larger hit count
RECURSIVE bestFrom(_, _, _)
bestFrom(i, t, best) ==
  IF i > Len(heuristics) THEN best
  ELSE bestFrom(i + 1, t,
         IF hits(heuristics[i], t) > best.score
           THEN [cat |-> heuristics[i].cat, score |-> hits(heuristics[i], t)]
           ELSE best)

\* Number(x.toFixed(2)) of score/3, in hundredths
toFixed2Thirds(score) == (2 * 100 * score + HitsForFullConfidence) \div (2 * HitsForFullConfidence)

\* variant of confidenceOf: no cap at 1
confidenceOfUncapped(score) ==
  IF score = 0 THEN ZeroHitConfidence ELSE toFixed2Thirds(score)

\* variant of confidenceOf: 0.4 is a floor for every hit count
confidenceOfFloored(score) ==
  IF Min(100, toFixed2Thirds(score)) < ZeroHitConfidence
    THEN ZeroHitConfidence ELSE Min(100, toFixed2Thirds(score))

\* Math.min(1, best.score / 3 || 0.4), rounded to two decimals
confidenceOf(score) ==
  IF score = 0 THEN ZeroHitConfidence ELSE Min(100, toFixed2Thirds(score))

classify(t) ==
  LET best == bestFrom(1, t, [cat |-> "other", score |-> 0])
  IN  [predictedCategory |-> best.cat, confidence |-> confidenceOf(best.score)]

\* A text argument: a string (its words), null or undefined
StringT(words) == [kind |-> "string", words |-> words]
NullT          == [kind |-> "null", words |-> {}]
UndefinedT     == [kind |-> "undefined", words |-> {}]

\* const t = (text || '').toLowerCase(), then classify as above
classifyText(text) ==
  classify(toLowerCase(IF text.kind = "string" THEN text.words ELSE {}))

(* -------------------- agent/llmProvider.js: draft -------------------- *)
DraftOpening == [n |-> 0, text |-> "Thanks for reaching out. Here's what might help:"]
DraftClosing == [n |-> 0, text |-> "If this doesn't resolve it, reply and a human agent will assist."]

\* variant of draft: the citations in the reverse order of the articles
draftCitesReversed(articles) ==
  [draftReply |-> <<DraftOpening>>
                  \o [i \in 1..Len(articles) |-> [n |-> i, text |-> articles[i].title]]
                  \o <<DraftClosing>>,
   citations  |->
     [i \in 1..Len(articles) |-> articles[Len(articles) + 1 - i].id]]

draft(articles) ==
  [draftReply |-> <<DraftOpening>>
                  \o [i \in 1..Len(articles) |-> [n |-> i, text |-> articles[i].title]]
                  \o <<DraftClosing>>,
   citations  |-> [i \in 1..Len(articles) |-> articles[i].id]]

(* ------------------- services/kbSearch.js: searchTop ----------------- *)
\* An article records, for each of title, tags and body, the queries that
\* match it (regs.test of the escaped, case-insensitive query).
regsTest(field, q) == q \in field

scoreOf(a, q) ==
    (IF regsTest(a.titleQ, q) THEN 4 ELSE 0)
  + (IF regsTest(a.tagQ, q) THEN 2 ELSE 0)
  + (IF regsTest(a.bodyQ, q) THEN 1 ELSE 0)

\* variant of articleFind: no filter on status
articleFindAnyStatus(store, q) ==
  SelectSeq(store, LAMBDA a : \/ regsTest(a.titleQ, q)
                              \/ regsTest(a.bodyQ, q)
                              \/ regsTest(a.tagQ, q))

\* Article.find({status:'published', $or:[title, body, tags]})
articleFind(store, q) ==
  SelectSeq(store, LAMBDA a : /\ a.status = "published"
                              /\ \/ regsTest(a.titleQ, q)
                                 \/ regsTest(a.bodyQ, q)
                                 \/ regsTest(a.tagQ, q))

\* variant of insertByScore: an element goes before the elements of its score
RECURSIVE insertByScoreUnstable(_, _, _)
insertByScoreUnstable(x, s, q) ==
  IF s = <<>> THEN <<x>>
  ELSE IF scoreOf(Head(s), q) > scoreOf(x, q)
         THEN <<Head(s)>> \o insertByScoreUnstable(x, Tail(s), q)
         ELSE <<x>> \o s

\* Array.prototype.sort((a,b) => b.score - a.score): stable, descending
RECURSIVE insertByScore(_, _, _)
insertByScore(x, s, q) ==
  IF s = <<>> THEN <<x>>
  ELSE IF scoreOf(Head(s), q) >= scoreOf(x, q)
         THEN <<Head(s)>> \o insertByScore(x, Tail(s), q)
         ELSE <<x>> \o s

RECURSIVE sortByScore(_, _)
sortByScore(s, q) ==
  IF s = <<>> THEN <<>>
  ELSE insertByScore(s[Len(s)], sortByScore(SubSeq(s, 1, Len(s) - 1), q), q)

\* variant of slice: one element more than the limit
sliceOneMore(s, limit) == SubSeq(s, 1, Min(limit + 1, Len(s)))

\* Array.prototype.slice(0, limit), limit >= 0
slice(s, limit) == SubSeq(s, 1, Min(limit, Len(s)))

Whitespace == "  "

\* String.prototype.trim on the queries of the model: a query of whitespace
\* only becomes the empty string, the others have no outer whitespace
trim(q) == IF q = Whitespace THEN "" ELSE q

searchTop(store, q, limit) ==
  IF q = "" \/ trim(q) = "" THEN <<>>
  ELSE slice(sortByScore(articleFind(store, trim(q)), trim(q)), limit)

(* ---------------------- models/Config.js values ---------------------- *)
\* A stored value is a JavaScript value of one of three types; a string is
\* a non-empty, non-numeric string.
BoolV(b) == [type |-> "boolean", b |-> b, n |-> 0]
NumV(n)  == [type |-> "number",  b |-> FALSE, n |-> n]
StrV     == [type |-> "string",  b |-> FALSE, n |-> 0]

Absent == [type |-> "absent"]

\* JavaScript truthiness of a value
truthy(v) ==
  CASE v.type = "boolean" -> v.b
    [] v.type = "number"  -> v.n # 0
    [] OTHER              -> TRUE

\* variant of geq: the comparison is strict
geqStrict(c, v) ==
  CASE v.type = "number"  -> c > v.n
    [] v.type = "boolean" -> c > (IF v.b THEN 100 ELSE 0)
    [] OTHER              -> FALSE

\* c >= v with JavaScript's numeric coercion of v (true is 1, a non-numeric
\* string is NaN and every comparison with NaN is false)
geq(c, v) ==
  CASE v.type = "number"  -> c >= v.n
    [] v.type = "boolean" -> c >= (IF v.b THEN 100 ELSE 0)
    [] OTHER              -> FALSE

\* triageTicket: (autoClose && cls.confidence >= threshold) ? 'auto_close' : 'human'
decide(autoClose, confidence, threshold) ==
  IF truthy(autoClose) /\ geq(confidence, threshold) THEN "auto_close" ELSE "human"

\* variant of validateValue: the type is checked, the range is not
validateValueTypeOnly(cfg, v) == v.type = cfg.type

\* Config.validateValue / the pre('save') hook: type match, then min and max
validateValue(cfg, v) ==
  /\ v.type = cfg.type
  /\ cfg.hasRange => (v.type = "number" => (v.n >= cfg.min /\ v.n <= cfg.max))

\* Config.initializeDefaults: the two keys the pipeline reads.  version is
\* the last part of metadata.version, which starts as '1.0.0'.
DefaultConfigs ==
  [autoCloseEnabled    |-> [value |-> BoolV(TRUE), type |-> "boolean",
                            hasRange |-> FALSE, min |-> 0, max |-> 0,
                            version |-> 0],
   confidenceThreshold |-> [value |-> NumV(DefaultThreshold), type |-> "number",
                            hasRange |-> TRUE, min |-> 0, max |-> 100,
                            version |-> 0]]

\* Config.incrementVersion: '1.0.n' becomes '1.0.(n+1)'
incrementVersion(version) == version + 1

ConfigKeys == {"autoCloseEnabled", "confidenceThreshold"}

(* ----------------------- models/AuditLog.js -------------------------- *)
ActorEnum == {"system", "agent", "user", "admin"}

ActionEnum ==
  {"TICKET_CREATED", "TICKET_UPDATED", "TICKET_STATUS_CHANGED", "TICKET_ASSIGNED",
   "TICKET_REPLIED", "TICKET_CLOSED", "TICKET_REOPENED",
   "AGENT_TRIAGE_STARTED", "AGENT_CLASSIFIED", "KB_RETRIEVED", "DRAFT_GENERATED",
   "AUTO_CLOSED", "ASSIGNED_TO_HUMAN", "AGENT_WORKFLOW_COMPLETED", "AGENT_WORKFLOW_FAILED",
   "KB_ARTICLE_CREATED", "KB_ARTICLE_UPDATED", "KB_ARTICLE_DELETED",
   "KB_ARTICLE_PUBLISHED", "KB_ARTICLE_ARCHIVED",
   "USER_REGISTERED", "USER_LOGGED_IN", "USER_LOGGED_OUT", "USER_PROFILE_UPDATED",
   "USER_ROLE_CHANGED",
   "SYSTEM_CONFIG_UPDATED", "SYSTEM_BACKUP_CREATED", "SYSTEM_MAINTENANCE",
   "SLA_BREACHED", "SLA_WARNING"}

ResourceTypeEnum == {"ticket", "article", "user", "system", "agent"}

\* auditLogSchema: traceId, actor, action and resourceType are required;
\* actor, action and resourceType are enum-checked.  "undefined" is a field
\* the caller did not pass.
auditLogSchema(e) ==
  /\ e.traceId # Undefined
  /\ e.actor \in ActorEnum
  /\ e.action \in ActionEnum
  /\ e.resourceType \in ResourceTypeEnum

(* ------------------------------ inputs ------------------------------- *)
\* Tickets as POST /api/tickets receives them: the keywords occurring in
\* title + description, and the description (the search query).
TicketInputs ==
  { [kw |-> {"refund", "payment"},        query |-> "refund for my payment"],
    [kw |-> {"error", "login", "crash"},  query |-> "login crash error"] }

\* Values an admin may send to PUT /api/config/:key or POST /api/config/import
ConfigInputs(key) ==
  IF key = "autoCloseEnabled" THEN { BoolV(FALSE) } ELSE { NumV(50), NumV(150), StrV }

\* The article store (seeded; not written by any operation modelled here)
SeedArticles ==
  << [id |-> 1, status |-> "published", title |-> "Refund policy",
      titleQ |-> {}, tagQ |-> {}, bodyQ |-> {"refund for my payment"}],
     [id |-> 2, status |-> "published", title |-> "How to request a refund",
      titleQ |-> {"refund for my payment"}, tagQ |-> {}, bodyQ |-> {}],
     [id |-> 3, status |-> "draft", title |-> "Login troubleshooting",
      titleQ |-> {"login crash error"}, tagQ |-> {"login crash error"}, bodyQ |-> {}],
     [id |-> 4, status |-> "published", title |-> "Fixing login errors",
      titleQ |-> {}, tagQ |-> {"login crash error"}, bodyQ |-> {"login crash error"}] >>

(* ------------------------------ state -------------------------------- *)
VARIABLES
  tickets,      \* Ticket collection: sequence, a ticket's id is its index
  suggestions,  \* AgentSuggestion collection: sequence, id is the index
  audit,        \* AuditLog collection, by traceId, each in creation order
  config,       \* Config collection, by key
  articles,     \* Article collection
  runs,         \* the calls of triageTicket, each at one of its awaits
  replyReqs,    \* the POST /:id/reply requests, each at one of its awaits
  events,       \* requests received so far plus store operations that failed
  auditStore,   \* "mongoose": AuditLog.create validates against auditLogSchema;
                \* "contract": the audit store accepts every entry it is given
  probe         \* a pure function under check: its inputs and, once applied, its result

vars == <<tickets, suggestions, audit, config, articles, runs, replyReqs,
          events, auditStore, probe>>

RunIds   == 1..MaxEvents
TraceIds == 0..(2 * MaxEvents)

\* the outcomes of a store operation: it succeeds (TRUE) or the store fails
Outcomes == {up \in BOOLEAN : up \/ events < MaxEvents}
outcome(up) == IF up THEN 0 ELSE 1

IdleRun ==
  [pc |-> "idle", ticketId |-> Undefined, traceId |-> Undefined,
   doc |-> [category |-> "other", status |-> "open"],
   cls |-> [predictedCategory |-> "other", confidence |-> 0],
   articles |-> <<>>, autoClose |-> Absent, threshold |-> Absent,
   decision |-> "none", suggestionId |-> Undefined,
   err |-> "none", failedAt |-> "none"]

NoProbe == [fn |-> "none"]

InitStores ==
  /\ tickets = <<>>
  /\ suggestions = <<>>
  /\ audit = [t \in TraceIds |-> <<>>]
  /\ config \in {[k \in ConfigKeys |-> Absent], DefaultConfigs}
  /\ articles = SeedArticles
  /\ runs = [r \in RunIds |-> IdleRun]
  /\ replyReqs = <<>>
  /\ events = 0

(* ----------------------- AuditLog.create ----------------------------- *)
\* Model.create: schema validation, then the insert (which fails when the
\* store cannot be reached: up = FALSE)
AuditLogCreate(e, up) ==
  IF auditStore = "mongoose" /\ ~auditLogSchema(e) THEN "ValidationError"
  ELSE IF up THEN "ok" ELSE "StoreError"

\* variant of appendAudit: the entry takes the place of the trace's entries
appendAuditReplacing(e) == [audit EXCEPT ![e.traceId] = <<e>>]

appendAudit(e) == [audit EXCEPT ![e.traceId] = Append(@, e)]

\* variant of logEntry: the entry carries no trace id
logEntryNoTrace(ticketId, traceId, action, meta) ==
  [ticketId |-> ticketId, traceId |-> Undefined, actor |-> "system",
   action |-> action, resourceType |-> "undefined", meta |-> meta]

\* triageService log(): the entry it builds
logEntry(ticketId, traceId, action, meta) ==
  [ticketId |-> ticketId, traceId |-> traceId, actor |-> "system",
   action |-> action, resourceType |-> "undefined", meta |-> meta]

fail(r, e) == [runs EXCEPT ![r].pc = "failed", ![r].err = e, ![r].failedAt = runs[r].pc]

\* `await log(...)` at step pc of run r: on success the run goes on to next,
\* otherwise the rejection leaves triageTicket
log(r, action, meta, next, up) ==
  LET e   == logEntry(runs[r].ticketId, runs[r].traceId, action, meta)
      res == AuditLogCreate(e, up)
  IN  IF res = "ok"
        THEN /\ audit' = appendAudit(e)
             /\ runs' = [runs EXCEPT ![r].pc = next]
        ELSE /\ audit' = audit
             /\ runs' = fail(r, res)

started == Cardinality({r \in RunIds : runs[r].pc # "idle"})

\* triageTicket up to its first await: traceId = options.traceId || uuid();
\* the k-th uuid() drawn for a run is k
uuid == started + 1

\* variant of startRun: the trace id is derived from the ticket
startRunTraceOfTicket(t, optTraceId) ==
  [runs EXCEPT ![started + 1] =
     [IdleRun EXCEPT !.pc = "find", !.ticketId = t, !.traceId = t]]

startRun(t, optTraceId) ==
  [runs EXCEPT ![started + 1] =
     [IdleRun EXCEPT !.pc = "find", !.ticketId = t,
                     !.traceId = IF optTraceId # Undefined THEN optTraceId ELSE uuid]]

(* ---------------- routes/tickets.js: POST /api/tickets --------------- *)
\* new Date() / Date.now() read during the n-th operation of kind op; two
\* reads are the same instant only when they are reads of the same operation
now(op, n) == [op |-> op, n |-> n]

\* req.requestId in the ticket routes: app mounts no middleware that sets it
\* for /api/tickets (logRequest is used by the auth, kb and config routers)
ticketRouteRequestId == Undefined

\* Ticket.create, the TICKET_CREATED audit entry (req.requestId is undefined:
\* the server mounts no middleware that sets it on this router), then the
\* fire-and-forget triageTicket(ticket._id, {traceId: req.requestId}).
\* A rejected AuditLog.create leaves the handler before triageTicket.
CreateTicket(in, up) ==
  /\ LET id  == Len(tickets) + 1
         e   == [ticketId |-> id, traceId |-> ticketRouteRequestId, actor |-> "user",
                 action |-> "TICKET_CREATED", resourceType |-> "undefined",
                 meta |-> [title |-> in.query]]
         res == AuditLogCreate(e, up)
     IN  /\ tickets' = Append(tickets,
                         [kw |-> in.kw, query |-> in.query, category |-> "other",
                          status |-> "open", priority |-> "medium",
                          createdBy |-> "user", assignee |-> Undefined,
                          agentSuggestion |-> Undefined,
                          sla |-> now("create", id),
                          lastActivity |-> now("create", id),
                          updatedAt |-> now("create", id)])
         /\ IF res = "ok"
              THEN /\ audit' = appendAudit(e)
                   /\ runs' = startRun(id, ticketRouteRequestId)
              ELSE UNCHANGED <<audit, runs>>
  /\ UNCHANGED <<suggestions, config, articles, replyReqs, auditStore, probe>>
  /\ events + 1 + outcome(up) <= MaxEvents
  /\ events' = events + 1 + outcome(up)

(* --------------- routes/agent.js: POST /api/agent/triage ------------- *)
\* a well-formed ticket id that names no ticket
NoSuchTicket == MaxEvents + 1

\* triageTicket(req.body.ticketId), awaited by the handler
AgentTriage(t) ==
  /\ runs' = startRun(t, Undefined)
  /\ UNCHANGED <<tickets, suggestions, audit, config, articles, replyReqs,
                 auditStore, probe>>
  /\ events < MaxEvents
  /\ events' = events + 1

(* ------------------ services/triageService.js ------------------------ *)
\* const ticket = await Ticket.findById(ticketId);
\* if (!ticket) throw new Error('Ticket not found');
TriageFind(r, up) ==
  /\ runs[r].pc = "find"
  /\ runs' =
       IF ~up THEN fail(r, "StoreError")
       ELSE IF runs[r].ticketId \notin DOMAIN tickets THEN fail(r, "Ticket not found")
       ELSE [runs EXCEPT ![r].pc = "logPlan",
                         ![r].doc = [category |-> tickets[runs[r].ticketId].category,
                                     status   |-> tickets[runs[r].ticketId].status]]
  /\ UNCHANGED <<tickets, suggestions, audit, config, articles, replyReqs,
                 auditStore, probe>>
  /\ events' = events + outcome(up)

TriageLogPlan(r, up) ==
  /\ runs[r].pc = "logPlan"
  /\ log(r, "AGENT_PLAN", [steps |-> <<"classify", "retrieve", "draft", "decision">>],
         "classify", up)
  /\ UNCHANGED <<tickets, suggestions, config, articles, replyReqs,
                 auditStore, probe>>
  /\ events' = events + outcome(up)

\* const cls = await llm.classify(title + description); await log(AGENT_CLASSIFIED, cls)
TriageClassify(r, up) ==
  /\ runs[r].pc = "classify"
  /\ LET cls == classify(tickets[runs[r].ticketId].kw)
         e   == logEntry(runs[r].ticketId, runs[r].traceId, "AGENT_CLASSIFIED", cls)
         res == AuditLogCreate(e, up)
     IN  IF res = "ok"
           THEN /\ audit' = appendAudit(e)
                /\ runs' = [runs EXCEPT ![r].pc = "search", ![r].cls = cls]
           ELSE /\ audit' = audit
                /\ runs' = [fail(r, res) EXCEPT ![r].cls = cls]
  /\ UNCHANGED <<tickets, suggestions, config, articles, replyReqs,
                 auditStore, probe>>
  /\ events' = events + outcome(up)

\* variant of TriageSearch: the query is that of the newest ticket
TriageSearchNewestTicket(r, up) ==
  /\ runs[r].pc = "search"
  /\ runs' =
       IF ~up THEN fail(r, "StoreError")
       ELSE [runs EXCEPT ![r].pc = "logRetrieved",
                         ![r].articles =
                            searchTop(articles, tickets[Len(tickets)].query, SearchLimit)]
  /\ UNCHANGED <<tickets, suggestions, audit, config, articles, replyReqs,
                 auditStore, probe>>
  /\ events' = events + outcome(up)

\* const articles = await kbSearch.searchTop(query, 3)
TriageSearch(r, up) ==
  /\ runs[r].pc = "search"
  /\ runs' =
       IF ~up THEN fail(r, "StoreError")
       ELSE [runs EXCEPT ![r].pc = "logRetrieved",
                         ![r].articles =
                            searchTop(articles, tickets[runs[r].ticketId].query, SearchLimit)]
  /\ UNCHANGED <<tickets, suggestions, audit, config, articles, replyReqs,
                 auditStore, probe>>
  /\ events' = events + outcome(up)

articleIds(as) == [i \in 1..Len(as) |-> as[i].id]

TriageLogRetrieved(r, up) ==
  /\ runs[r].pc = "logRetrieved"
  /\ log(r, "KB_RETRIEVED", [articleIds |-> articleIds(runs[r].articles)], "draft", up)
  /\ UNCHANGED <<tickets, suggestions, config, articles, replyReqs,
                 auditStore, probe>>
  /\ events' = events + outcome(up)

\* const drafted = await llm.draft(query, articles); await log(DRAFT_GENERATED, ...)
TriageDraft(r, up) ==
  /\ runs[r].pc = "draft"
  /\ log(r, "DRAFT_GENERATED", [citations |-> draft(runs[r].articles).citations],
         "getAutoClose", up)
  /\ UNCHANGED <<tickets, suggestions, config, articles, replyReqs,
                 auditStore, probe>>
  /\ events' = events + outcome(up)

\* variant of getFlag: no fallback for a key that is absent or not readable
getFlagNoFallback(key, fallback, up) ==
  IF up /\ config[key] # Absent THEN config[key].value ELSE Absent

\* getFlag: Config.getByKey(key).catch(() => null); cfg ? cfg.value : fallback
getFlag(key, fallback, up) ==
  IF up /\ config[key] # Absent THEN config[key].value ELSE fallback

TriageGetAutoClose(r, up) ==
  /\ runs[r].pc = "getAutoClose"
  /\ runs' = [runs EXCEPT ![r].pc = "getThreshold",
                          ![r].autoClose = getFlag("autoCloseEnabled", BoolV(TRUE), up)]
  /\ UNCHANGED <<tickets, suggestions, audit, config, articles, replyReqs,
                 auditStore, probe>>
  /\ events' = events + outcome(up)

TriageGetThreshold(r, up) ==
  /\ runs[r].pc = "getThreshold"
  /\ LET th == getFlag("confidenceThreshold", NumV(DefaultThreshold), up)
     IN  runs' = [runs EXCEPT ![r].pc = "logDecision",
                              ![r].threshold = th,
                              ![r].decision =
                                 decide(runs[r].autoClose, runs[r].cls.confidence, th)]
  /\ UNCHANGED <<tickets, suggestions, audit, config, articles, replyReqs,
                 auditStore, probe>>
  /\ events' = events + outcome(up)

\* variant of TriageLogDecision: the run goes from the decision entry straight
\* to the final entry
TriageLogDecisionThenFinal(r, up) ==
  /\ runs[r].pc = "logDecision"
  /\ log(r, "DECISION_MADE",
         [autoClose |-> runs[r].autoClose, threshold |-> runs[r].threshold,
          confidence |-> runs[r].cls.confidence, decision |-> runs[r].decision],
         "logFinal", up)
  /\ UNCHANGED <<tickets, suggestions, config, articles, replyReqs,
                 auditStore, probe>>
  /\ events' = events + outcome(up)

TriageLogDecision(r, up) ==
  /\ runs[r].pc = "logDecision"
  /\ log(r, "DECISION_MADE",
         [autoClose |-> runs[r].autoClose, threshold |-> runs[r].threshold,
          confidence |-> runs[r].cls.confidence, decision |-> runs[r].decision],
         "createSuggestion", up)
  /\ UNCHANGED <<tickets, suggestions, config, articles, replyReqs,
                 auditStore, probe>>
  /\ events' = events + outcome(up)

\* agentSuggestionSchema: the validators of the fields the pipeline sets
agentSuggestionSchema(s) ==
  /\ s.predictedCategory \in {"billing", "tech", "shipping", "other"}
  /\ s.draftReply # <<>>
  /\ s.confidence >= 0 /\ s.confidence <= 100

\* variant of TriageCreateSuggestion: a suggestion the ticket already has is
\* replaced instead of a new one being created
TriageCreateSuggestionDedup(r, up) ==
  /\ runs[r].pc = "createSuggestion"
  /\ LET d == draft(runs[r].articles)
         s == [ticketId |-> runs[r].ticketId,
               predictedCategory |-> runs[r].cls.predictedCategory,
               articleIds |-> articleIds(runs[r].articles),
               draftReply |-> d.draftReply,
               citations |-> d.citations,
               confidence |-> runs[r].cls.confidence,
               autoClosed |-> (runs[r].decision = "auto_close")]
         old == {i \in DOMAIN suggestions : suggestions[i].ticketId = runs[r].ticketId}
     IN  IF ~up
           THEN /\ runs' = fail(r, "StoreError")
                /\ suggestions' = suggestions
         ELSE IF old # {}
           THEN /\ suggestions' = [suggestions EXCEPT ![CHOOSE i \in old : TRUE] = s]
                /\ runs' = [runs EXCEPT ![r].pc = "saveTicket",
                                        ![r].suggestionId = CHOOSE i \in old : TRUE]
         ELSE /\ suggestions' = Append(suggestions, s)
              /\ runs' = [runs EXCEPT ![r].pc = "saveTicket",
                                      ![r].suggestionId = Len(suggestions) + 1]
  /\ UNCHANGED <<tickets, audit, config, articles, replyReqs,
                 auditStore, probe>>
  /\ events' = events + outcome(up)

\* const suggestion = await AgentSuggestion.create({...})
TriageCreateSuggestion(r, up) ==
  /\ runs[r].pc = "createSuggestion"
  /\ LET d == draft(runs[r].articles)
         s == [ticketId |-> runs[r].ticketId,
               predictedCategory |-> runs[r].cls.predictedCategory,
               articleIds |-> articleIds(runs[r].articles),
               draftReply |-> d.draftReply,
               citations |-> d.citations,
               confidence |-> runs[r].cls.confidence,
               autoClosed |-> (runs[r].decision = "auto_close")]
     IN  IF ~agentSuggestionSchema(s)
           THEN /\ runs' = fail(r, "ValidationError")
                /\ suggestions' = suggestions
         ELSE IF ~up
           THEN /\ runs' = fail(r, "StoreError")
                /\ suggestions' = suggestions
         ELSE /\ suggestions' = Append(suggestions, s)
              /\ runs' = [runs EXCEPT ![r].pc = "saveTicket",
                                      ![r].suggestionId = Len(suggestions) + 1]
  /\ UNCHANGED <<tickets, audit, config, articles, replyReqs,
                 auditStore, probe>>
  /\ events' = events + outcome(up)

\* variant of statusFor: every ticket goes to a human
statusForAlwaysHuman(decision) == "waiting_human"

statusFor(decision) == IF decision = "auto_close" THEN "resolved" ELSE "waiting_human"

\* ticket.category = ...; ticket.agentSuggestionId = ...; ticket.status = ...;
\* await ticket.save().  save() writes the paths whose value differs from the
\* loaded document; agentSuggestionId is no path of ticketSchema (the schema
\* names the field agentSuggestion) and is dropped by strict mode.
\* variant of ticketSave: the save also assigns the ticket
ticketSaveAssigns(t, doc, category, status, date) ==
  [tickets EXCEPT ![t].category = IF category # doc.category THEN category ELSE @,
                  ![t].status   = IF status # doc.status THEN status ELSE @,
                  ![t].assignee = 1]

\* ticketSchema.pre('save'): lastActivity = new Date() when status is
\* modified (the document is not new; assignee and sla are not touched);
\* timestamps: true sets updatedAt when any path is modified
ticketSave(t, doc, category, status, date) ==
  [tickets EXCEPT ![t].category = IF category # doc.category THEN category ELSE @,
                  ![t].status   = IF status # doc.status THEN status ELSE @,
                  ![t].lastActivity = IF status # doc.status THEN date ELSE @,
                  ![t].updatedAt = IF category # doc.category \/ status # doc.status
                                     THEN date ELSE @]

TriageSaveTicket(r, up) ==
  /\ runs[r].pc = "saveTicket"
  /\ IF up
       THEN /\ tickets' = ticketSave(runs[r].ticketId, runs[r].doc,
                                     runs[r].cls.predictedCategory,
                                     statusFor(runs[r].decision),
                                     now("triage", r))
            /\ runs' = [runs EXCEPT ![r].pc = "logFinal"]
       ELSE /\ tickets' = tickets
            /\ runs' = fail(r, "StoreError")
  /\ UNCHANGED <<suggestions, audit, config, articles, replyReqs,
                 auditStore, probe>>
  /\ events' = events + outcome(up)

finalAction(decision) == IF decision = "auto_close" THEN "AUTO_CLOSED" ELSE "ASSIGNED_TO_HUMAN"

\* await log(final action, {suggestionId}); return {traceId, suggestionId, decision}
TriageLogFinal(r, up) ==
  /\ runs[r].pc = "logFinal"
  /\ log(r, finalAction(runs[r].decision), [suggestionId |-> runs[r].suggestionId],
         "done", up)
  /\ UNCHANGED <<tickets, suggestions, config, articles, replyReqs,
                 auditStore, probe>>
  /\ events' = events + outcome(up)

(* --------------- routes/tickets.js: POST /:id/reply ------------------ *)
\* const ticket = await Ticket.findById(id); 404 when there is none
ReplyFind(t, close) ==
  /\ t \in DOMAIN tickets
  /\ replyReqs' = Append(replyReqs,
                    [ticketId |-> t, close |-> close, pc |-> "save",
                     loaded |-> tickets[t].status])
  /\ UNCHANGED <<tickets, suggestions, audit, config, articles, runs,
                 auditStore, probe>>
  /\ events < MaxEvents
  /\ events' = events + 1

replyStatus(close) == IF close THEN "resolved" ELSE "triaged"

\* ticket.status = close ? 'resolved' : 'triaged'; await ticket.save();
\* await AuditLog.create({... action: 'REPLY_SENT' ...})
ReplySave(i, up) ==
  /\ i \in DOMAIN replyReqs
  /\ replyReqs[i].pc = "save"
  /\ LET q == replyReqs[i]
         e == [ticketId |-> q.ticketId, traceId |-> ticketRouteRequestId, actor |-> "agent",
               action |-> "REPLY_SENT", resourceType |-> "undefined",
               meta |-> [close |-> q.close]]
     IN  /\ tickets' = ticketSave(q.ticketId,
                                  [category |-> tickets[q.ticketId].category,
                                   status |-> q.loaded],
                                  tickets[q.ticketId].category,
                                  replyStatus(q.close), now("reply", i))
         /\ audit' = IF AuditLogCreate(e, up) = "ok" THEN appendAudit(e) ELSE audit
         /\ replyReqs' = [replyReqs EXCEPT ![i].pc = "done"]
  /\ UNCHANGED <<suggestions, config, articles, runs, auditStore, probe>>
  /\ events' = events + outcome(up)

(* ------------------------ routes/config.js --------------------------- *)
\* POST /api/config/initialize: Config.initializeDefaults creates the keys
\* that do not exist
ConfigInitialize ==
  /\ \E k \in ConfigKeys : config[k] = Absent
  /\ config' = [k \in ConfigKeys |->
                  IF config[k] = Absent THEN DefaultConfigs[k] ELSE config[k]]
  /\ UNCHANGED <<tickets, suggestions, audit, articles, runs, replyReqs,
                 auditStore, probe>>
  /\ events < MaxEvents
  /\ events' = events + 1

\* Config.setValue on the collection cfgs: the key must exist and the value
\* pass validateValue; then the value is stored and the version incremented
setValueIn(cfgs, key, v) ==
  IF cfgs[key] # Absent /\ validateValue(cfgs[key], v)
    THEN [cfgs EXCEPT ![key].value = v,
                      ![key].version = incrementVersion(@)]
    ELSE cfgs

setValue(key, v) == setValueIn(config, key, v)

\* PUT /api/config/:key: Config.setValue, then the SYSTEM_CONFIG_UPDATED
\* entry under the request id that logRequest drew
ConfigPut(key, v, up) ==
  /\ config' = setValue(key, v)
  /\ LET e == [ticketId |-> Undefined, traceId |-> MaxEvents + events + 1, actor |-> "admin",
               action |-> "SYSTEM_CONFIG_UPDATED", resourceType |-> "system",
               meta |-> [key |-> key]]
     IN  audit' = IF config' # config /\ AuditLogCreate(e, up) = "ok"
                    THEN appendAudit(e) ELSE audit
  /\ UNCHANGED <<tickets, suggestions, articles, runs, replyReqs, auditStore, probe>>
  /\ events + 1 + outcome(up) <= MaxEvents
  /\ events' = events + 1 + outcome(up)

\* POST /api/config/import, one entry: an existing key is skipped unless
\* overwrite (then Config.setValue); a new key is saved as sent, with the
\* type of its value and no validation block
ConfigImport(key, v, overwrite) ==
  /\ config' =
       IF config[key] # Absent
         THEN IF overwrite THEN setValue(key, v) ELSE config
         ELSE [config EXCEPT ![key] = [value |-> v, type |-> v.type,
                                       hasRange |-> FALSE, min |-> 0, max |-> 0,
                                       version |-> 0]]
  /\ UNCHANGED <<tickets, suggestions, audit, articles, runs, replyReqs, auditStore, probe>>
  /\ events < MaxEvents
  /\ events' = events + 1

\* POST /api/config/bulk-update: Config.setValue for each update in turn, a
\* rejected one being reported and skipped
RECURSIVE bulkSetValue(_, _)
bulkSetValue(cfgs, updates) ==
  IF updates = <<>> THEN cfgs
  ELSE bulkSetValue(setValueIn(cfgs, Head(updates).key, Head(updates).value),
                    Tail(updates))

ConfigBulkUpdate(updates) ==
  /\ config' = bulkSetValue(config, updates)
  /\ UNCHANGED <<tickets, suggestions, audit, articles, runs, replyReqs, auditStore, probe>>
  /\ events < MaxEvents
  /\ events' = events + 1

(* --------------------------- specifications -------------------------- *)
Next ==
  \/ \E in \in TicketInputs, up \in BOOLEAN : CreateTicket(in, up)
  \/ \E t \in DOMAIN tickets \cup {NoSuchTicket} : AgentTriage(t)
  \/ \E r \in RunIds, up \in Outcomes : TriageFind(r, up)
  \/ \E r \in RunIds, up \in Outcomes : TriageLogPlan(r, up)
  \/ \E r \in RunIds, up \in Outcomes : TriageClassify(r, up)
  \/ \E r \in RunIds, up \in Outcomes : TriageSearch(r, up)
  \/ \E r \in RunIds, up \in Outcomes : TriageLogRetrieved(r, up)
  \/ \E r \in RunIds, up \in Outcomes : TriageDraft(r, up)
  \/ \E r \in RunIds, up \in Outcomes : TriageGetAutoClose(r, up)
  \/ \E r \in RunIds, up \in Outcomes : TriageGetThreshold(r, up)
  \/ \E r \in RunIds, up \in Outcomes : TriageLogDecision(r, up)
  \/ \E r \in RunIds, up \in Outcomes : TriageCreateSuggestion(r, up)
  \/ \E r \in RunIds, up \in Outcomes : TriageSaveTicket(r, up)
  \/ \E r \in RunIds, up \in Outcomes : TriageLogFinal(r, up)
  \/ \E t \in DOMAIN tickets, close \in BOOLEAN : ReplyFind(t, close)
  \/ \E i \in DOMAIN replyReqs, up \in Outcomes : ReplySave(i, up)
  \/ ConfigInitialize
  \/ \E k \in ConfigKeys : \E v \in ConfigInputs(k), up \in BOOLEAN : ConfigPut(k, v, up)
  \/ \E k \in ConfigKeys : \E v \in ConfigInputs(k), ow \in BOOLEAN : ConfigImport(k, v, ow)

\* The pipeline against the audit store of its interface: append(entry)
\* accepts the entry unless the store cannot be reached.
Init == InitStores /\ auditStore = "contract" /\ probe = NoProbe
Spec == Init /\ [][Next]_vars

\* The repository as it is: AuditLog.create validates against auditLogSchema.
\* No run gets past its first log() call, so the later steps of triageTicket
\* are left out of the next-state relation.
NextSchema ==
  \/ \E in \in TicketInputs, up \in BOOLEAN : CreateTicket(in, up)
  \/ \E t \in DOMAIN tickets \cup {NoSuchTicket} : AgentTriage(t)
  \/ \E r \in RunIds, up \in Outcomes : TriageFind(r, up)
  \/ \E r \in RunIds, up \in Outcomes : TriageLogPlan(r, up)
  \/ \E t \in DOMAIN tickets, close \in BOOLEAN : ReplyFind(t, close)
  \/ \E i \in DOMAIN replyReqs, up \in Outcomes : ReplySave(i, up)
  \/ ConfigInitialize
  \/ \E k \in ConfigKeys : \E v \in ConfigInputs(k), up \in BOOLEAN : ConfigPut(k, v, up)
  \/ \E k \in ConfigKeys : \E v \in ConfigInputs(k), ow \in BOOLEAN : ConfigImport(k, v, ow)

InitSchema == InitStores /\ auditStore = "mongoose" /\ probe = NoProbe
SpecSchema == InitSchema /\ [][NextSchema]_vars

(* ----------------- the decision rule on its own ---------------------- *)
\* confidences and thresholds in hundredths, the boundary c = t included
DecideConfidences == {0, 33, 40, 67, 78, 100}
DecideThresholds  == {0, 33, 50, 67, 78, 100, 150}

InitDecide ==
  /\ InitStores
  /\ auditStore = "contract"
  /\ probe \in [fn : {"decide"}, e : BOOLEAN, c : DecideConfidences,
                t : DecideThresholds, applied : {FALSE}, out : {"none"}]

\* const decision = (autoClose && cls.confidence >= threshold) ? 'auto_close' : 'human'
ApplyDecide ==
  /\ probe.fn = "decide"
  /\ ~probe.applied
  /\ probe' = [probe EXCEPT !.applied = TRUE,
                            !.out = decide(BoolV(probe.e), probe.c, NumV(probe.t))]
  /\ UNCHANGED <<tickets, suggestions, audit, config, articles, runs, replyReqs,
                 events, auditStore>>

NextDecide == ApplyDecide

SpecDecide == InitDecide /\ [][NextDecide]_vars

(* ------------------- the classifier on its own ----------------------- *)
\* the words of the texts given to classify: keywords of the three
\* categories in lower and upper case, keywords inside longer words, and a
\* word that holds no keyword
TextWords == {"Refunded", "payment", "ERROR", "Login", "crash", "timeout",
              "delivery", "author", "hello"}

TextInputs == {StringT(ws) : ws \in SUBSET TextWords} \cup {NullT, UndefinedT}

NoClassification == [predictedCategory |-> "none", confidence |-> 0]

InitClassify ==
  /\ InitStores
  /\ auditStore = "contract"
  /\ probe \in [fn : {"classify"}, text : TextInputs, applied : {FALSE},
                out : {NoClassification}]

ApplyClassify ==
  /\ probe.fn = "classify"
  /\ ~probe.applied
  /\ probe' = [probe EXCEPT !.applied = TRUE, !.out = classifyText(probe.text)]
  /\ UNCHANGED <<tickets, suggestions, audit, config, articles, runs, replyReqs,
                 events, auditStore>>

NextClassify == ApplyClassify

SpecClassify == InitClassify /\ [][NextClassify]_vars

(* ------------------- the article search on its own ------------------- *)
\* articles in the store
MaxArticles == 3

SearchQuery == "refund"

\* an article by its status and by which of its title, tags and body the
\* query matches
ArticleShapes ==
  [status : {"published", "draft", "archived"},
   titleQ : {{}, {SearchQuery}}, tagQ : {{}, {SearchQuery}}, bodyQ : {{}, {SearchQuery}}]

articleOf(id, shape) ==
  [id |-> id, status |-> shape.status, title |-> <<"Article", id>>,
   titleQ |-> shape.titleQ, tagQ |-> shape.tagQ, bodyQ |-> shape.bodyQ]

\* the stores of MaxArticles articles, in the order Article.find returns them
ArticleStores ==
  {[i \in 1..MaxArticles |-> articleOf(i, f[i])] : f \in [1..MaxArticles -> ArticleShapes]}

\* the calls searchTop(q, limit): the query with limit zero, with a limit
\* below and at the pipeline's, the empty query and a query of whitespace
SearchCalls ==
  {[q |-> SearchQuery, limit |-> 0],
   [q |-> SearchQuery, limit |-> 2], [q |-> SearchQuery, limit |-> SearchLimit],
   [q |-> "", limit |-> SearchLimit], [q |-> Whitespace, limit |-> SearchLimit]}

InitSearch ==
  /\ InitStores
  /\ config = DefaultConfigs
  /\ auditStore = "contract"
  /\ \E st \in ArticleStores, c \in SearchCalls :
       probe = [fn |-> "searchTop", store |-> st, q |-> c.q, limit |-> c.limit,
                applied |-> FALSE, out |-> <<>>, draftReply |-> <<>>,
                citations |-> <<>>, articleIds |-> <<>>]

\* kbSearch.searchTop(query, limit), and what triageTicket makes of the
\* result: drafted.citations and the suggestion's articleIds
ApplySearch ==
  /\ probe.fn = "searchTop"
  /\ ~probe.applied
  /\ LET found == searchTop(probe.store, probe.q, probe.limit)
     IN  probe' = [probe EXCEPT !.applied = TRUE, !.out = found,
                                !.draftReply = draft(found).draftReply,
                                !.citations = draft(found).citations,
                                !.articleIds = articleIds(found)]
  /\ UNCHANGED <<tickets, suggestions, audit, config, articles, runs, replyReqs,
                 events, auditStore>>

NextSearch == ApplySearch

SpecSearch == InitSearch /\ [][NextSearch]_vars

(* ------------- models/User.js and the role middleware ---------------- *)
\* requests handled by the role middleware
MaxRequests == 2

Roles == {"user", "agent", "admin"}

\* req.user when authentication has not set it
NoUser == "none"

\* const roleHierarchy = { 'user': 1, 'agent': 2, 'admin': 3 }
roleHierarchy(role) ==
  CASE role = "user" -> 1 [] role = "agent" -> 2 [] role = "admin" -> 3

\* variant of hasPermission: the user's role must rank above the required one
hasPermissionStrictlyAbove(role, requiredRole) ==
  roleHierarchy(role) > roleHierarchy(requiredRole)

\* userSchema.methods.hasPermission, for a user of the given role
hasPermission(role, requiredRole) ==
  roleHierarchy(role) >= roleHierarchy(requiredRole)

\* requireRole(requiredRole)(req, res, next): 401 without req.user, 403
\* without the permission, otherwise next()
requireRole(requiredRole, user) ==
  IF user = NoUser THEN "401"
  ELSE IF ~hasPermission(user, requiredRole) THEN "403"
  ELSE "next"

requireAdmin(user) == requireRole("admin", user)

requireAgent(user) == requireRole("agent", user)

InitRole ==
  /\ InitStores
  /\ config = DefaultConfigs
  /\ auditStore = "contract"
  /\ probe = [fn |-> "requireRole", handled |-> <<>>]

handle(entry) ==
  /\ probe.fn = "requireRole"
  /\ Len(probe.handled) < MaxRequests
  /\ probe' = [probe EXCEPT !.handled = Append(@, entry)]
  /\ UNCHANGED <<tickets, suggestions, audit, config, articles, runs, replyReqs,
                 events, auditStore>>

\* a request of a user with the given role (or of nobody) to a route
\* guarded by requireRole(requiredRole)
RequireRole(user, requiredRole) ==
  handle([mw |-> "requireRole", user |-> user, requiredRole |-> requiredRole,
          hasPermission |-> IF user = NoUser THEN FALSE
                            ELSE hasPermission(user, requiredRole),
          out |-> requireRole(requiredRole, user)])

RequireAgent(user) ==
  handle([mw |-> "requireAgent", user |-> user, requiredRole |-> "agent",
          hasPermission |-> IF user = NoUser THEN FALSE
                            ELSE hasPermission(user, "agent"),
          out |-> requireAgent(user)])

RequireAdmin(user) ==
  handle([mw |-> "requireAdmin", user |-> user, requiredRole |-> "admin",
          hasPermission |-> IF user = NoUser THEN FALSE
                            ELSE hasPermission(user, "admin"),
          out |-> requireAdmin(user)])

NextRole ==
  \/ \E user \in Roles \cup {NoUser}, q \in Roles : RequireRole(user, q)
  \/ \E user \in Roles \cup {NoUser} : RequireAgent(user)
  \/ \E user \in Roles \cup {NoUser} : RequireAdmin(user)

SpecRole == InitRole /\ [][NextRole]_vars

(* ------------------ routes/auth.js: POST /register ------------------- *)
\* email addresses as sent
EmailInputs == {"ann@example.com", "Ann@Example.com", "bob@example.com"}

\* body('email').normalizeEmail() and the schema's lowercase: true
normalizeEmail(email) == IF email = "Ann@Example.com" THEN "ann@example.com" ELSE email

\* body('role').optional(): the role as sent, or none
NoRole == "undefined"

RoleInputs == Roles \cup {NoRole}

\* the emails of the stored users
storedEmails(users) == {users[i].email : i \in DOMAIN users}

InitRegister ==
  /\ InitStores
  /\ config = DefaultConfigs
  /\ auditStore = "mongoose"
  /\ probe = [fn |-> "register", users |-> <<>>, regs |-> <<>>]

\* the handler up to `await user.save()`: the route validators (400), then
\* User.findOne({ email }) (409 when it finds a user)
RegisterFind(email, role, valid) ==
  /\ probe.fn = "register"
  /\ Len(probe.regs) < MaxRequests
  /\ LET e == normalizeEmail(email)
         found == e \in storedEmails(probe.users)
     IN  probe' = [probe EXCEPT !.regs = Append(@,
                     [email |-> e, role |-> IF role = NoRole THEN "user" ELSE role,
                      found |-> valid /\ found, duplicateKey |-> FALSE,
                      pc |-> IF valid /\ ~found THEN "save" ELSE "done",
                      status |-> IF ~valid THEN 400 ELSE IF found THEN 409 ELSE 0])]
  /\ UNCHANGED <<tickets, suggestions, audit, config, articles, runs, replyReqs,
                 events, auditStore>>

\* await user.save(): the unique index on email rejects a second document
\* with the email (the rejection is caught: 500); then the USER_REGISTERED
\* entry under the request id of logRequest, and 201
RegisterSave(i) ==
  /\ probe.fn = "register"
  /\ i \in DOMAIN probe.regs
  /\ probe.regs[i].pc = "save"
  /\ LET q == probe.regs[i]
         e == [ticketId |-> Undefined, traceId |-> i, actor |-> "user",
               action |-> "USER_REGISTERED", resourceType |-> "user",
               meta |-> [email |-> q.email, role |-> q.role]]
     IN  IF q.email \in storedEmails(probe.users)
           THEN /\ probe' = [probe EXCEPT !.regs[i].pc = "done",
                                          !.regs[i].duplicateKey = TRUE,
                                          !.regs[i].status = 500]
                /\ audit' = audit
           ELSE /\ probe' = [probe EXCEPT
                               !.users = Append(@, [email |-> q.email, role |-> q.role]),
                               !.regs[i].pc = "done",
                               !.regs[i].status =
                                  IF AuditLogCreate(e, TRUE) = "ok" THEN 201 ELSE 500]
                /\ audit' = IF AuditLogCreate(e, TRUE) = "ok" THEN appendAudit(e) ELSE audit
  /\ UNCHANGED <<tickets, suggestions, config, articles, runs, replyReqs,
                 events, auditStore>>

NextRegister ==
  \/ \E email \in EmailInputs, role \in RoleInputs, valid \in BOOLEAN :
       RegisterFind(email, role, valid)
  \/ \E i \in 1..MaxRequests : RegisterSave(i)

SpecRegister == InitRegister /\ [][NextRegister]_vars

(* ------------------ the configuration on its own --------------------- *)
\* values an admin may send for a key: booleans, numbers inside, at the ends
\* of and outside [0, 1] (in hundredths), and a string
ConfigValues ==
  {BoolV(TRUE), BoolV(FALSE), NumV(0), NumV(50), NumV(100), NumV(101), NumV(-1), StrV}

ConfigUpdates == [key : ConfigKeys, value : ConfigValues]

\* the bodies of bulk-update: one update, or two
BulkUpdates ==
  {<<u>> : u \in ConfigUpdates} \cup {<<u1, u2>> : u1 \in ConfigUpdates, u2 \in ConfigUpdates}

\* the store after the seed script's Config.initializeDefaults()
InitConfig ==
  /\ InitStores
  /\ config = DefaultConfigs
  /\ auditStore = "mongoose"
  /\ probe = NoProbe

NextConfig ==
  \/ \E k \in ConfigKeys, v \in ConfigValues, up \in BOOLEAN : ConfigPut(k, v, up)
  \/ \E updates \in BulkUpdates : ConfigBulkUpdate(updates)
  \/ \E k \in ConfigKeys, v \in ConfigValues, ow \in BOOLEAN : ConfigImport(k, v, ow)

SpecConfig == InitConfig /\ [][NextConfig]_vars

(* ------------------------ middleware: rateLimit ---------------------- *)
\* requests handled by the limiter, and the last reading of the clock (ms)
MaxHits == 4
MaxTime == 4

\* req.ip when the request has none
NoIp == "undefined"

IpInputs == {"10.0.0.1", NoIp}

\* const key = req.ip || 'global'
keyOf(ip) == IF ip = NoIp THEN "global" ELSE ip

BucketKeys == {keyOf(ip) : ip \in IpInputs}

\* the options rateLimit({ windowMs, max }) is created with
LimitOptions == [windowMs : {2}, max : {1, 2}]

\* variant of filterHits: a hit exactly windowMs old still counts
filterHitsInclusive(bucket, t, windowMs) ==
  SelectSeq(bucket, LAMBDA h : t - h <= windowMs)

\* (BUCKET.get(key) || []).filter(t => now - t < windowMs)
filterHits(bucket, t, windowMs) ==
  SelectSeq(bucket, LAMBDA h : t - h < windowMs)

InitRateLimit ==
  /\ InitStores
  /\ config = DefaultConfigs
  /\ auditStore = "contract"
  /\ \E o \in LimitOptions :
       probe = [fn |-> "rateLimit", windowMs |-> o.windowMs, max |-> o.max,
                clock |-> 0, BUCKET |-> [k \in BucketKeys |-> <<>>],
                handled |-> <<>>]

\* time passes: Date.now() reads one millisecond more
ClockTick ==
  /\ probe.fn = "rateLimit"
  /\ probe.clock < MaxTime
  /\ probe' = [probe EXCEPT !.clock = @ + 1]
  /\ UNCHANGED <<tickets, suggestions, audit, config, articles, runs, replyReqs,
                 events, auditStore>>

\* the middleware on one request: the key's hits inside the window, plus
\* this one, are stored; 429 when they are more than max, otherwise next()
RateLimit(ip) ==
  /\ probe.fn = "rateLimit"
  /\ Len(probe.handled) < MaxHits
  /\ LET key  == keyOf(ip)
         kept == Append(filterHits(probe.BUCKET[key], probe.clock, probe.windowMs),
                        probe.clock)
     IN  probe' = [probe EXCEPT
                     !.BUCKET[key] = kept,
                     !.handled = Append(@, [key |-> key, t |-> probe.clock,
                                            out |-> IF Len(kept) > probe.max
                                                      THEN "429" ELSE "next"])]
  /\ UNCHANGED <<tickets, suggestions, audit, config, articles, runs, replyReqs,
                 events, auditStore>>

NextRateLimit ==
  \/ ClockTick
  \/ \E ip \in IpInputs : RateLimit(ip)

SpecRateLimit == InitRateLimit /\ [][NextRateLimit]_vars

(* ------------------------------ properties --------------------------- *)
midFlight(t) ==
  \E r \in RunIds : runs[r].ticketId = t /\ runs[r].pc \notin {"idle", "done", "failed"}

statusOfSuggestion(sg) == IF sg.autoClosed THEN "resolved" ELSE "waiting_human"

C2_DecisionRule ==
  (probe.fn = "decide" /\ probe.applied) =>
     /\ probe.out \in {"auto_close", "human"}
     /\ probe.out = "auto_close" <=> (probe.e /\ probe.c >= probe.t)
     /\ probe.out = "human" <=> ~(probe.e /\ probe.c >= probe.t)

C2_EqualAutoCloses ==
  /\ probe.fn = "decide" /\ probe.applied
  /\ probe.e /\ probe.c = probe.t
  /\ probe.out = "auto_close"

StageActions == <<"AGENT_PLAN", "AGENT_CLASSIFIED", "KB_RETRIEVED", "DRAFT_GENERATED",
                  "DECISION_MADE">>
FinalActions == {"AUTO_CLOSED", "ASSIGNED_TO_HUMAN"}

entriesOf(r) == audit[runs[r].traceId]

C5_NotFoundIsAudited ==
  \A r \in RunIds :
    (runs[r].pc = "failed" /\ runs[r].err = "Ticket not found") =>
       /\ \A i \in DOMAIN suggestions : suggestions[i].ticketId # runs[r].ticketId
       /\ Len(entriesOf(r)) >= 1

StagesThatThrow == {"search", "createSuggestion", "saveTicket"}

LogSteps == {"logPlan", "classify", "logRetrieved", "draft", "logDecision", "logFinal"}

\* C7: no run ends in the failed state at one of its audit appends.
C7_AppendFailureDoesNotAbort ==
  \A r \in RunIds : ~(runs[r].pc = "failed" /\ runs[r].failedAt \in LogSteps)

\* C8: no run fails because the audit store's schema rejects an entry the
\* run wrote.
C8_NoEntryRejected ==
  \A r \in RunIds :
    ~(runs[r].pc = "failed" /\ runs[r].failedAt \in LogSteps
                            /\ runs[r].err = "ValidationError")

suggestionsOf(t) == {i \in DOMAIN suggestions : suggestions[i].ticketId = t}
runsOn(t) == {r \in RunIds : runs[r].pc # "idle" /\ runs[r].ticketId = t}
wroteSuggestion(r) == runs[r].suggestionId # Undefined

C11_EachRunItsOwnSuggestion ==
  /\ \A r \in RunIds :
       /\ runs[r].pc \in {"saveTicket", "logFinal", "done"} => wroteSuggestion(r)
       /\ wroteSuggestion(r) =>
            /\ runs[r].suggestionId \in DOMAIN suggestions
            /\ suggestions[runs[r].suggestionId].ticketId = runs[r].ticketId
  /\ \A r1, r2 \in RunIds :
       (r1 # r2 /\ wroteSuggestion(r1) /\ wroteSuggestion(r2)) =>
          runs[r1].suggestionId # runs[r2].suggestionId
  /\ \A t \in DOMAIN tickets :
       Cardinality(suggestionsOf(t)) =
          Cardinality({r \in runsOn(t) : wroteSuggestion(r)})

loggedAt(pc) ==
  CASE pc \in {"find", "logPlan"}                             -> 0
    [] pc = "classify"                                        -> 1
    [] pc \in {"search", "logRetrieved"}                      -> 2
    [] pc = "draft"                                           -> 3
    [] pc \in {"getAutoClose", "getThreshold", "logDecision"} -> 4
    [] pc \in {"createSuggestion", "saveTicket", "logFinal"}  -> 5
    [] OTHER                                                  -> 6

logged(r) == loggedAt(IF runs[r].pc = "failed" THEN runs[r].failedAt ELSE runs[r].pc)

stepOf(r) == runs[r].pc # "idle" /\ runs'[r] # runs[r]

sameOutside(r, fields) ==
  /\ DOMAIN tickets' = DOMAIN tickets
  /\ \A t \in DOMAIN tickets :
       IF t = runs[r].ticketId
         THEN \A f \in (DOMAIN tickets[t]) \ fields : tickets'[t][f] = tickets[t][f]
         ELSE tickets'[t] = tickets[t]

C15_CreatedTicketIsTriaged ==
  \A t \in DOMAIN tickets : runsOn(t) # {}

classified == probe.fn = "classify" /\ probe.applied

\* the distinct keywords of category k that occur, in any case, in the text
hitsIn(text, k) ==
  IF text.kind # "string" THEN 0 ELSE hits(heuristics[k], toLowerCase(text.words))

\* C16: classify returns 'other' exactly when no category has a hit
\* (for null and undefined in particular); otherwise it returns the category
\* with the most distinct keywords occurring in the text, the first declared
\* one among those with the most.
C16_MostHitsFirstDeclared ==
  classified =>
     LET out == probe.out.predictedCategory
         H(k) == hitsIn(probe.text, k)
     IN  /\ out = "other" <=> \A k \in DOMAIN heuristics : H(k) = 0
         /\ probe.text.kind # "string" => out = "other"
         /\ out # "other" =>
              \E k \in DOMAIN heuristics :
                 /\ out = heuristics[k].cat
                 /\ H(k) >= 1
                 /\ \A j \in DOMAIN heuristics :
                      /\ H(j) <= H(k)
                      /\ H(j) = H(k) => k <= j

C16_TieGoesToFirstDeclared ==
  /\ classified
  /\ probe.text = StringT({"ERROR", "delivery", "hello"})
  /\ probe.out.predictedCategory = "tech"

\* the hit count of the category with the most hits
mostHits(text) ==
  CHOOSE m \in 0..Cardinality(TextWords) :
    /\ \E k \in DOMAIN heuristics : hitsIn(text, k) = m
    /\ \A k \in DOMAIN heuristics : hitsIn(text, k) <= m

\* C17: with h the hit count of the winning category, the confidence is 0.40
\* for h = 0, 0.33 for h = 1, 0.67 for h = 2 and 1.00 for h >= 3; it lies in
\* [0, 1], and so does the confidence of every stored suggestion.
C17_ConfidenceOfHits ==
  /\ classified =>
       LET h == mostHits(probe.text)
           c == probe.out.confidence
       IN  /\ h = 0 => c = 40
           /\ h = 1 => c = 33
           /\ h = 2 => c = 67
           /\ h >= 3 => c = 100
           /\ c >= 0 /\ c <= 100
  /\ \A i \in DOMAIN suggestions :
       suggestions[i].confidence >= 0 /\ suggestions[i].confidence <= 100

C17_FiveHitsIsOne ==
  /\ classified
  /\ mostHits(probe.text) = 5
  /\ probe.out.confidence = 100

searched == probe.fn = "searchTop" /\ probe.applied

publishedIds(store) == {store[j].id : j \in {k \in DOMAIN store : store[k].status = "published"}}

\* C19: every article searchTop returns is an article of the store with
\* status 'published', and so is every article cited in the draft made from
\* the result or referenced by the suggestion made from it.
C19_OnlyPublished ==
  /\ searched =>
       /\ \A i \in DOMAIN probe.out :
            /\ probe.out[i].status = "published"
            /\ \E j \in DOMAIN probe.store : probe.store[j] = probe.out[i]
       /\ \A i \in DOMAIN probe.citations :
            probe.citations[i] \in publishedIds(probe.store)
       /\ \A i \in DOMAIN probe.articleIds :
            probe.articleIds[i] \in publishedIds(probe.store)
  /\ \A i \in DOMAIN suggestions :
       /\ \A k \in DOMAIN suggestions[i].articleIds :
            suggestions[i].articleIds[k] \in publishedIds(articles)
       /\ \A k \in DOMAIN suggestions[i].citations :
            suggestions[i].citations[k] \in publishedIds(articles)

C19_DraftWithTitleMatchLeftOut ==
  /\ searched
  /\ probe.store[1].status = "draft" /\ probe.store[1].titleQ = {SearchQuery}
  /\ probe.store[2].status = "archived" /\ probe.store[2].tagQ = {SearchQuery}
  /\ probe.store[3].status = "published" /\ probe.store[3].bodyQ = {SearchQuery}
  /\ probe.articleIds = <<3>>

\* the score of the claim, in halves: 2 for the title, 1 for a tag, 0.5 for
\* the body
weightedScore(a, q) ==
    (IF q \in a.titleQ THEN 4 ELSE 0)
  + (IF q \in a.tagQ THEN 2 ELSE 0)
  + (IF q \in a.bodyQ THEN 1 ELSE 0)

\* C20: the articles searchTop returns are in descending order of score
\* (title 2, tag 1, body 0.5), and of two returned articles with the same
\* score the one the store returned first comes first.
C20_DescendingAndStable ==
  searched =>
     \A i, j \in DOMAIN probe.out :
        i < j =>
          /\ weightedScore(probe.out[i], probe.q) >= weightedScore(probe.out[j], probe.q)
          /\ weightedScore(probe.out[i], probe.q) = weightedScore(probe.out[j], probe.q)
               => probe.out[i].id < probe.out[j].id

C20_TieKeepsStoreOrder ==
  /\ searched
  /\ Len(probe.out) = 3
  /\ probe.articleIds = <<3, 1, 2>>
  /\ weightedScore(probe.store[1], probe.q) = 3
  /\ weightedScore(probe.store[2], probe.q) = 3
  /\ weightedScore(probe.store[3], probe.q) = 4

matches(a, q) == q \in a.titleQ \/ q \in a.tagQ \/ q \in a.bodyQ

candidates(store, q) ==
  {j \in DOMAIN store : store[j].status = "published" /\ matches(store[j], q)}

\* C21: searchTop returns at most limit articles, each of them a published
\* article of the store that matches the query, none of them twice; it
\* returns the empty sequence for an empty query, for a query of whitespace
\* only, and when no published article matches.
C21_AtMostLimitMatchingDistinct ==
  searched =>
    /\ Len(probe.out) <= probe.limit
    /\ \A i \in DOMAIN probe.out :
         \E j \in candidates(probe.store, probe.q) : probe.store[j] = probe.out[i]
    /\ \A i, j \in DOMAIN probe.out : i # j => probe.out[i].id # probe.out[j].id
    /\ probe.q \in {"", Whitespace} => probe.out = <<>>
    /\ candidates(probe.store, probe.q) = {} => probe.out = <<>>

C21_ThreeCandidatesLimitTwo ==
  /\ searched
  /\ probe.limit = 2
  /\ Cardinality(candidates(probe.store, probe.q)) = 3
  /\ Len(probe.out) = 2

idsOf(as) == [i \in DOMAIN as |-> as[i].id]

\* C22: draft returns as citations the ids of the articles it was given, in
\* the same order and of the same length (none for the empty list), and its
\* text lists the articles' titles in that order between the opening and the
\* closing line; the article list made for the suggestion is the same
\* sequence, and every stored suggestion has these ids, in ranked order, as
\* both its article list and its citations.
C22_CitationsAreTheArticleIds ==
  /\ searched =>
       /\ probe.citations = idsOf(probe.out)
       /\ Len(probe.citations) = Len(probe.out)
       /\ probe.articleIds = probe.citations
       /\ Len(probe.draftReply) = Len(probe.out) + 2
       /\ probe.draftReply[1] = DraftOpening
       /\ probe.draftReply[Len(probe.draftReply)] = DraftClosing
       /\ \A i \in DOMAIN probe.out :
            probe.draftReply[i + 1] = [n |-> i, text |-> probe.out[i].title]
  /\ \A i \in DOMAIN suggestions :
       LET ranked == searchTop(articles, tickets[suggestions[i].ticketId].query, SearchLimit)
       IN  /\ suggestions[i].articleIds = idsOf(ranked)
           /\ suggestions[i].citations = idsOf(ranked)

C22_ThreeCitedInRankedOrder ==
  /\ searched
  /\ probe.citations = <<2, 3, 1>>
  /\ probe.draftReply[2].text = <<"Article", 2>>
  /\ probe.draftReply[4].text = <<"Article", 1>>

C22_NoArticlesNoCitations ==
  /\ searched
  /\ probe.q = SearchQuery /\ probe.limit = SearchLimit
  /\ probe.out = <<>> /\ probe.citations = <<>>
  /\ probe.draftReply = <<DraftOpening, DraftClosing>>

\* what triageTicket computes for ticket t when it runs alone, from the
\* ticket, the configuration and the articles
aloneCls(t) == classify(tickets[t].kw)

aloneArticles(t) == searchTop(articles, tickets[t].query, SearchLimit)

aloneAutoClose == getFlag("autoCloseEnabled", BoolV(TRUE), TRUE)

aloneThreshold == getFlag("confidenceThreshold", NumV(DefaultThreshold), TRUE)

aloneDecision(t) == decide(aloneAutoClose, aloneCls(t).confidence, aloneThreshold)

aloneSuggestion(t) ==
  [ticketId |-> t,
   predictedCategory |-> aloneCls(t).predictedCategory,
   articleIds |-> idsOf(aloneArticles(t)),
   draftReply |-> draft(aloneArticles(t)).draftReply,
   citations |-> idsOf(aloneArticles(t)),
   confidence |-> aloneCls(t).confidence,
   autoClosed |-> (aloneDecision(t) = "auto_close")]

\* the entries of the run's trace; the ids of the trace and of the
\* suggestion are the ones drawn for the run
aloneTrace(t, traceId, suggestionId) ==
  << logEntry(t, traceId, "AGENT_PLAN",
              [steps |-> <<"classify", "retrieve", "draft", "decision">>]),
     logEntry(t, traceId, "AGENT_CLASSIFIED", aloneCls(t)),
     logEntry(t, traceId, "KB_RETRIEVED", [articleIds |-> idsOf(aloneArticles(t))]),
     logEntry(t, traceId, "DRAFT_GENERATED", [citations |-> idsOf(aloneArticles(t))]),
     logEntry(t, traceId, "DECISION_MADE",
              [autoClose |-> aloneAutoClose, threshold |-> aloneThreshold,
               confidence |-> aloneCls(t).confidence, decision |-> aloneDecision(t)]),
     logEntry(t, traceId, finalAction(aloneDecision(t)), [suggestionId |-> suggestionId]) >>

\* two tickets were created, nothing else was requested and nothing failed
twoCreationsOnly == events = 2 /\ Len(tickets) = 2 /\ replyReqs = <<>>

isPrefix(s, t) == Len(s) <= Len(t) /\ SubSeq(t, 1, Len(s)) = s

C24_TwoRunsLogged ==
  /\ Len(audit[Undefined]) = 2
  /\ \E t1, t2 \in TraceIds \ {Undefined} :
       t1 # t2 /\ Len(audit[t1]) >= 2 /\ Len(audit[t2]) >= 2

roleChecks == IF probe.fn = "requireRole" THEN probe.handled ELSE <<>>

RoleOrder == <<"user", "agent", "admin">>

rankIn(order, role) == CHOOSE i \in DOMAIN order : order[i] = role

ranksAtLeast(role, q) == rankIn(RoleOrder, role) >= rankIn(RoleOrder, q)

\* C25: for a user of role r and a required role q, both of user, agent and
\* admin, hasPermission(q) is true exactly when r is q or comes after q in
\* the order user < agent < admin, and requireRole(q) lets the request pass
\* exactly then; requireAgent lets agents and admins pass and nobody else,
\* requireAdmin admins and nobody else.
C25_PermissionIsRankOrder ==
  \A i \in DOMAIN roleChecks :
    LET c == roleChecks[i]
    IN  /\ c.user # NoUser =>
             /\ c.hasPermission = ranksAtLeast(c.user, c.requiredRole)
             /\ (c.out = "next") = ranksAtLeast(c.user, c.requiredRole)
        /\ c.mw = "requireAgent" => ((c.out = "next") = (c.user \in {"agent", "admin"}))
        /\ c.mw = "requireAdmin" => ((c.out = "next") = (c.user = "admin"))
        /\ c.user = NoUser => c.out = "401"

\* an agent was let through requireAgent and then refused by requireAdmin
C25_AgentPassesAgentNotAdmin ==
  /\ Len(roleChecks) = 2
  /\ roleChecks[1] = [mw |-> "requireAgent", user |-> "agent", requiredRole |-> "agent",
                       hasPermission |-> TRUE, out |-> "next"]
  /\ roleChecks[2] = [mw |-> "requireAdmin", user |-> "agent", requiredRole |-> "admin",
                       hasPermission |-> FALSE, out |-> "403"]

registrations == IF probe.fn = "register" THEN probe.regs ELSE <<>>

registered == IF probe.fn = "register" THEN probe.users ELSE <<>>

\* the request was refused because its email belongs to a stored user
refusedAsDuplicate(q) == q.pc = "done" /\ (q.found \/ q.duplicateKey)

\* C26: a registration whose email already belongs to a stored user is
\* answered with status 400 and creates no second user, also when two
\* registrations for the email are handled interleaved; at all times at most
\* one user exists per email.
C26_DuplicateEmailIs400 ==
  /\ \A i \in DOMAIN registrations :
       refusedAsDuplicate(registrations[i]) => registrations[i].status = 400
  /\ \A i, j \in DOMAIN registered :
       registered[i].email = registered[j].email => i = j

\* the part of C26 about the stored users: at most one user per email, and
\* a registration refused as a duplicate stored none
C26_AtMostOneUserPerEmail ==
  /\ \A i, j \in DOMAIN registered :
       registered[i].email = registered[j].email => i = j
  /\ Len(registered) =
       Cardinality({i \in DOMAIN registrations : registrations[i].status = 201})

\* two registrations for one email, the second received before the first
\* had saved: one is answered 201, the other 500
C26_InterleavedDuplicateIs500 ==
  /\ Len(registrations) = 2
  /\ registrations[1].email = registrations[2].email
  /\ ~registrations[1].found /\ ~registrations[2].found
  /\ {registrations[1].status, registrations[2].status} = {201, 500}
  /\ Len(registered) = 1

inUnitInterval(v) == v.type = "number" /\ v.n >= 0 /\ v.n <= 100

isBoolean(v) == v.type = "boolean"

\* the stored values are valid, and Config.setValue on the stored
\* configuration rejects what is not valid without changing anything
configValidAndGuarded ==
  /\ inUnitInterval(config.confidenceThreshold.value)
  /\ isBoolean(config.autoCloseEnabled.value)
  /\ \A v \in ConfigValues :
       /\ ~inUnitInterval(v) => setValue("confidenceThreshold", v) = config
       /\ ~isBoolean(v) => setValue("autoCloseEnabled", v) = config
       /\ inUnitInterval(v) =>
            /\ setValue("confidenceThreshold", v).confidenceThreshold.value = v
            /\ setValue("confidenceThreshold", v).confidenceThreshold.version
                 = config.confidenceThreshold.version + 1

\* C28: starting from the default configuration, before and after every
\* update through Config.setValue (PUT /:key, bulk-update, import with
\* overwrite) the stored confidenceThreshold is a number in [0, 1] and the
\* stored autoCloseEnabled a boolean, and an update with a value that is not
\* such a number (such a boolean) leaves the stored value and the version of
\* its key, and everything else stored, as they are; a request changes a
\* key only by storing a value of the key's type under a higher version.
C28_ConfigStaysValid ==
  [][/\ configValidAndGuarded
     /\ configValidAndGuarded'
     /\ \A k \in ConfigKeys :
          \/ config'[k] = config[k]
          \/ /\ config'[k].version > config[k].version
             /\ config'[k].value.type = config[k].type
             /\ config'[k].type = config[k].type]_vars

\* both keys were updated: the threshold to the upper end of its range,
\* auto-close switched off
C28_BothKeysUpdated ==
  /\ config.confidenceThreshold.value = NumV(100)
  /\ config.confidenceThreshold.version = 1
  /\ config.autoCloseEnabled.value = BoolV(FALSE)
  /\ config.autoCloseEnabled.version = 1
  /\ events = MaxEvents

C27_CategoryAndStatusOfOneRun ==
  \A r1, r2 \in RunIds :
    ( /\ r1 # r2
      /\ runs[r1].pc = "done" /\ runs[r2].pc = "done"
      /\ runs[r1].ticketId = runs[r2].ticketId
      /\ replyReqs = <<>> )
    => LET t == runs[r1].ticketId
       IN  /\ Cardinality(suggestionsOf(t)) >= 2
           /\ \E r \in {r1, r2} :
                /\ tickets[t].category = runs[r].cls.predictedCategory
                /\ tickets[t].status = statusFor(runs[r].decision)

\* the ticket's status is the one an agent's reply wrote: the last save
\* that modified the status was that of a reply
agentOutcome(t) ==
  /\ tickets[t].lastActivity.op = "reply"
  /\ tickets[t].status \in {"resolved", "triaged"}

limited == IF probe.fn = "rateLimit" THEN probe.handled ELSE <<>>

\* the requests from the key of request i, up to and including i, that are
\* less than windowMs older than it
recentFrom(i) ==
  {j \in 1..i : /\ limited[j].key = limited[i].key
                /\ limited[i].t - limited[j].t < probe.windowMs}

\* the admitted requests of key k at a time t with from <= t < from + windowMs
admittedIn(k, from) ==
  {j \in DOMAIN limited : /\ limited[j].key = k
                          /\ limited[j].out = "next"
                          /\ limited[j].t >= from
                          /\ limited[j].t < from + probe.windowMs}

\* C30: a request is admitted exactly when the requests from its key that
\* are less than windowMs older than it (admitted or not, itself included)
\* are at most max; so of the requests of a key at times in a window
\* [T, T + windowMs) at most max are admitted, the verdict does not depend on
\* the requests of other keys, and a request of a key with no request in the
\* windowMs before it is admitted.
C30_AdmittedIffWithinMax ==
  /\ \A i \in DOMAIN limited :
       (limited[i].out = "next") = (Cardinality(recentFrom(i)) <= probe.max)
  /\ \A i \in DOMAIN limited : limited[i].out \in {"next", "429"}
  /\ limited # <<>> =>
       \A k \in BucketKeys : \A from \in 0..MaxTime :
         Cardinality(admittedIn(k, from)) <= probe.max
  /\ \A i \in DOMAIN limited : recentFrom(i) = {i} => limited[i].out = "next"

\* with max 1: a key is admitted, refused in the same window while the other
\* key is admitted, and admitted again windowMs after its last request
C30_RefusedThenAdmittedAgain ==
  /\ Len(limited) = 4
  /\ probe.max = 1
  /\ limited[1] = [key |-> "global", t |-> 0, out |-> "next"]
  /\ limited[2] = [key |-> "global", t |-> 1, out |-> "429"]
  /\ limited[3] = [key |-> "10.0.0.1", t |-> 1, out |-> "next"]
  /\ limited[4] = [key |-> "global", t |-> 3, out |-> "next"]

====
